---- MODULE Spec2Model ----
(***************************************************************************)
(* The WhatsApp bridge of naobot/bridge: the protocol client adapter       *)
(* (WhatsAppClient, whatsapp.ts = src/unnamed/part_004) and the relay      *)
(* server (BridgeServer, src/naobot/bridge/src/server.ts).                 *)
(*                                                                         *)
(* The model is at the level of the two exported classes: their public     *)
(* methods are called by their owner, the chat library delivers            *)
(* connection updates on every socket that has not closed yet, reconnect   *)
(* timers fire, local peers connect, send and close.  One action is one    *)
(* run of a handler between two suspensions of the event loop.             *)
(***************************************************************************)
EXTENDS Integers, Sequences, FiniteSets, TLC

\* ---------------------------------------------------------------- bounds
MaxPeers == 2      \* peer connections ever accepted
MaxSocks == 3      \* sockets ever created by connect()
MaxEvents == 4     \* Bridge Events ever emitted by the adapter
MaxCmds == 2       \* peer messages ever received
MaxMessages == 2   \* inbound messages ever forwarded by the adapter
MaxOpenings == 2   \* openings of the environment dialog
MaxPositions == 1  \* open positions of the account
MaxRequests == 2   \* switch requests ever issued
MaxPages == 3      \* loads of the page

Peers == 1..MaxPeers
SockIds == 1..MaxSocks

\* who called connect(): BridgeServer.start, the owner again, the reconnect timer
Origins == {"start", "api", "timer"}

\* statusCode of lastDisconnect.error; "undefined" when there is no error
StatusCodes == {"loggedOut", "connectionLost", "undefined"}
\* the challenge strings the network issues, each one new
QRChallenges == <<"qr1", "qr2", "qr3", "qr4", "qr5", "qr6", "qr7", "qr8">>
Dests == <<"1234@x">>
MessageKinds == {"malformed", "other", "send"}

VARIABLES
    wss,          \* BridgeServer.wss is not null
    wa,           \* BridgeServer.wa is not null
    clients,      \* BridgeServer.clients
    readyState,   \* readyState of each peer's WebSocket
    inbox,        \* what each peer has received, in order
    sock,         \* WhatsAppClient.sock: 0 for null, else a socket id
    reconnecting, \* WhatsAppClient.reconnecting
    timers,       \* reconnect timers scheduled and not fired yet
    connecting,   \* connect() calls between their call and makeWASocket, by origin
    socks,        \* state of every socket created so far
    emitted,      \* the Bridge Events the adapter has passed to its callbacks
    issued,       \* the QR challenges the library has delivered
    joinedAt,     \* Len(emitted) when the peer was registered
    nCmds,        \* peer messages received so far
    last,         \* the last peer message: who sent it and what it was
    pending,      \* message handlers suspended on the library's sock.sendMessage
    lastClose,    \* the last close event since the last explicit connect()
    listener,     \* the listening port of the WebSocketServer
    exitCode,     \* "running", or the code the process has exited with
    lastUpsert,   \* the last messages.upsert batch delivered by the library
    \* EnvironmentSwitcher.tsx
    mounted,            \* the component is rendered
    open,               \* prop: the dialog is open
    currentEnvironment, \* prop
    checks,             \* state: the results of the preflight checks
    confirmations,      \* state: the two checkboxes
    loading,            \* state: a switch request is in flight
    positions,          \* backend: the open positions of the account
    config,             \* backend: which keys are configured
    preflights,         \* performPreflightChecks() calls suspended on an await
    opening,            \* how many times the dialog has been opened
    checkedAt,          \* the opening whose preflight set checks, 0 for none
    requests,           \* the switch requests issued
    \* TradingModeContext.tsx
    page,               \* how many times the page has been loaded
    tradingMode,        \* state of the provider
    localStorage,       \* the value stored under 'trading_mode'
    backendMode,        \* the mode in the backend's SystemConfig
    sync,               \* the syncWithBackend() call of this page
    setCall,            \* the setTradingMode() call of this page
    lastSet             \* how the setTradingMode() call before the reload ended

vars == <<wss, wa, clients, readyState, inbox, sock, reconnecting, timers,
          connecting, socks, emitted, issued, joinedAt, nCmds, last, pending, lastClose,
          listener, exitCode, lastUpsert,
          mounted, open, currentEnvironment, checks, confirmations, loading,
          positions, config, preflights, opening, checkedAt, requests,
          page, tradingMode, localStorage, backendMode, sync, setCall, lastSet>>

relayVars == <<wss, wa, clients, readyState, inbox, joinedAt, nCmds, last, pending>>
adapterVars == <<sock, reconnecting, timers, connecting, socks, lastClose>>
procVars == <<listener, exitCode>>
bridgeVars == <<relayVars, adapterVars, procVars, emitted, issued, lastUpsert>>
switcherVars == <<mounted, open, currentEnvironment, checks, confirmations, loading,
                  positions, config, preflights, opening, checkedAt, requests>>
modeVars == <<page, tradingMode, localStorage, backendMode, sync, setCall, lastSet>>
uiVars == <<switcherVars, modeVars>>

\* ---------------------------------------------------------------- helpers
Env(t, v, i) == [type |-> t, val |-> v, id |-> i]

Live(s) == socks[s] \in {"connecting", "open"}
LiveSocks == {s \in SockIds : Live(s)}
Created == {s \in SockIds : socks[s] # "none"}
InProgress == connecting["start"] + connecting["api"] + connecting["timer"]

\* the process has not exited: its handlers still run
running == exitCode = "running"

\* DisconnectReason.loggedOut
loggedOut == "loggedOut"

\* part_004 line 154
shouldReconnect(statusCode) == statusCode # loggedOut

\* ws.send(data): a WebSocket that is not OPEN delivers nothing
wsSend(inb, p, msg) ==
    IF readyState[p] = "OPEN" THEN [inb EXCEPT ![p] = Append(@, msg)] ELSE inb

\* inbox[p] records what p receives up to the 'close' event of its channel
unobserved(inb, ps) == [p \in Peers |-> IF p \in ps THEN <<>> ELSE inb[p]]

\* a variant of broadcast whose loop ends after the first client it sends to
broadcastFirstOnly(inb, cl, msg) ==
    LET writable == {p \in cl : readyState[p] = "OPEN"}
    IN [p \in Peers |->
           IF p \in writable /\ \A q \in writable : p <= q THEN Append(inb[p], msg) ELSE inb[p]]

\* BridgeServer.broadcast
broadcast(inb, cl, msg) ==
    [p \in Peers |->
        IF p \in cl /\ readyState[p] = "OPEN" THEN Append(inb[p], msg) ELSE inb[p]]

Init ==
    /\ wss = FALSE
    /\ wa = FALSE
    /\ clients = {}
    /\ readyState = [p \in Peers |-> "NONE"]
    /\ inbox = [p \in Peers |-> <<>>]
    /\ sock = 0
    /\ reconnecting = FALSE
    /\ timers = 0
    /\ connecting = [o \in Origins |-> 0]
    /\ socks = [s \in SockIds |-> "none"]
    /\ emitted = <<>>
    /\ issued = <<>>
    /\ joinedAt = [p \in Peers |-> 0]
    /\ nCmds = 0
    /\ last = [peer |-> 0, kind |-> "none"]
    /\ pending = {}
    /\ lastClose = "none"
    /\ listener = "none"
    /\ exitCode = "running"
    /\ lastUpsert = [type |-> "none", messages |-> <<>>]
    /\ mounted = FALSE
    /\ open = FALSE
    /\ currentEnvironment = "testnet"
    /\ checks = [noOpenPositions |-> FALSE, credentialsConfigured |-> FALSE]
    /\ confirmations = [understandRealMoney |-> FALSE, confirmSwitch |-> FALSE]
    /\ loading = FALSE
    /\ positions = 0
    /\ config = [hasTestnetKey |-> FALSE, hasMainnetKey |-> FALSE]
    /\ preflights = {}
    /\ opening = 0
    /\ checkedAt = 0
    /\ requests = <<>>
    /\ page = 0
    /\ tradingMode = "testnet"
    /\ localStorage = "null"
    /\ backendMode = "testnet"
    /\ sync = [stage |-> "none", mode |-> "none"]
    /\ setCall = [stage |-> "none", mode |-> "none"]
    /\ lastSet = [ok |-> TRUE, mode |-> "none"]

\* ---------------------------------------------------------------- adapter
\* a call of WhatsAppClient.connect(): it runs up to its first await
connectCall(o) ==
    /\ Cardinality(Created) + InProgress < MaxSocks
    /\ connecting' = [connecting EXCEPT ![o] = @ + 1]

\* BridgeServer.start
start ==
    /\ running
    /\ ~wss /\ ~wa
    /\ Cardinality(Created) = 0 /\ InProgress = 0
    /\ wss' = TRUE
    /\ listener' = "binding"
    /\ wa' = TRUE
    /\ connectCall("start")
    /\ lastClose' = "none"
    /\ UNCHANGED <<exitCode, lastUpsert, uiVars, clients, readyState, inbox, sock, reconnecting, timers, socks,
                   emitted, issued, joinedAt, nCmds, last, pending>>

\* the owner calls connect() again
connect ==
    /\ running
    /\ wa
    /\ connectCall("api")
    /\ lastClose' = "none"
    /\ UNCHANGED <<procVars, lastUpsert, uiVars, relayVars, sock, reconnecting, timers, socks, emitted, issued>>

\* connect() after its awaits: makeWASocket and the handlers
connectOpen(o) ==
    /\ running
    /\ connecting[o] > 0
    /\ LET s == Cardinality(Created) + 1
       IN /\ sock' = s
          /\ socks' = [socks EXCEPT ![s] = "connecting"]
    /\ connecting' = [connecting EXCEPT ![o] = @ - 1]
    /\ UNCHANGED <<procVars, lastUpsert, uiVars, relayVars, reconnecting, timers, emitted, issued, lastClose>>

\* a variant of rejected in which every caller logs the error and goes on
rejectedAndLogged(o) == {"running"}

\* where the rejection of a connect() call ends: that of start()'s call in the
\* catch of index.ts, which exits with 1; that of the timer's call, which nobody
\* awaits, as an unhandled rejection, which ends the process or not with the
\* runtime; that of the owner's call in the owner
rejected(o) ==
    IF o = "start" THEN {"1"}
    ELSE IF o = "timer" THEN {"running", "1"}
    ELSE {"running"}

\* connect() when useMultiFileAuthState throws
connectFail(o) ==
    /\ running
    /\ connecting[o] > 0
    /\ connecting' = [connecting EXCEPT ![o] = @ - 1]
    /\ exitCode' \in rejected(o)
    /\ UNCHANGED <<listener, lastUpsert, uiVars, relayVars, sock, reconnecting, timers, socks, emitted, issued, lastClose>>

\* a variant of updateEvents that reports a status with every QR challenge too
updateEventsStatusOnQR(qr, connection) ==
    LET n == Len(emitted)
        q == IF qr # "none"
             THEN <<Env("qr", qr, n + 1), Env("status", "connecting", n + 2)>> ELSE <<>>
        m == n + Len(q)
        c == IF connection = "close" THEN <<Env("status", "disconnected", m + 1)>>
             ELSE IF connection = "open" THEN <<Env("status", "connected", m + 1)>>
             ELSE <<>>
    IN q \o c

\* a variant of updateEvents that reports a close to nobody
updateEventsSilentClose(qr, connection) ==
    LET n == Len(emitted)
        q == IF qr # "none" THEN <<Env("qr", qr, n + 1)>> ELSE <<>>
        m == n + Len(q)
        c == IF connection = "open" THEN <<Env("status", "connected", m + 1)>> ELSE <<>>
    IN q \o c

\* a variant of updateEvents that forwards the first QR challenge only
updateEventsFirstQROnly(qr, connection) ==
    LET n == Len(emitted)
        q == IF qr # "none" /\ issued = <<>> THEN <<Env("qr", qr, n + 1)>> ELSE <<>>
        m == n + Len(q)
        c == IF connection = "close" THEN <<Env("status", "disconnected", m + 1)>>
             ELSE IF connection = "open" THEN <<Env("status", "connected", m + 1)>>
             ELSE <<>>
    IN q \o c

\* the events one connection.update produces, in the handler's order
updateEvents(qr, connection) ==
    LET n == Len(emitted)
        q == IF qr # "none" THEN <<Env("qr", qr, n + 1)>> ELSE <<>>
        m == n + Len(q)
        c == IF connection = "close" THEN <<Env("status", "disconnected", m + 1)>>
             ELSE IF connection = "open" THEN <<Env("status", "connected", m + 1)>>
             ELSE <<>>
    IN q \o c

\* a variant of broadcastAll that passes only the QR challenges on to the peers
broadcastAllQROnly(inb, cl, evs) ==
    IF Len(evs) >= 1 /\ evs[1].type = "qr" THEN broadcast(inb, cl, evs[1]) ELSE inb

\* the adapter's callbacks of one handler run: each event is broadcast
broadcastAll(inb, cl, evs) ==
    IF Len(evs) = 0 THEN inb
    ELSE IF Len(evs) = 1 THEN broadcast(inb, cl, evs[1])
    ELSE broadcast(broadcast(inb, cl, evs[1]), cl, evs[2])

\* the close branch schedules a reconnect timer
schedules(connection, statusCode) ==
    connection = "close" /\ shouldReconnect(statusCode) /\ ~reconnecting

\* the connection.update handler, for an update on socket s
handleUpdate(inb, cl, s, qr, connection, statusCode) ==
    LET evs == updateEvents(qr, connection)
    IN /\ Len(emitted) + Len(evs) <= MaxEvents
       /\ emitted' = emitted \o evs
       /\ inbox' = broadcastAll(inb, cl, evs)
       /\ issued' = IF qr # "none" THEN Append(issued, qr) ELSE issued
       /\ reconnecting' = (reconnecting \/ schedules(connection, statusCode))
       /\ timers' = IF schedules(connection, statusCode) THEN timers + 1 ELSE timers
       /\ socks' = [socks EXCEPT ![s] =
                       IF connection = "close" THEN "closed"
                       ELSE IF connection = "open" THEN "open" ELSE @]
       /\ lastClose' = IF connection = "close"
                       THEN (IF statusCode = loggedOut THEN "loggedOut" ELSE "other")
                       ELSE lastClose

\* the library reports a connection update on a socket that has not closed
connectionUpdate(s, qr, connection, statusCode) ==
    /\ running
    /\ Live(s)
    /\ qr # "none" \/ connection # "none"
    /\ qr # "none" => socks[s] = "connecting"
    /\ connection = "open" => socks[s] = "connecting"
    /\ connection # "close" => statusCode = "undefined"
    /\ connection = "close" => statusCode # "undefined"
    /\ qr = "none" \/ connection = "none"
    /\ handleUpdate(inbox, clients, s, qr, connection, statusCode)
    /\ UNCHANGED <<procVars, lastUpsert, uiVars, wss, wa, clients, readyState, joinedAt, nCmds, last, pending, sock, connecting>>

\* a variant of reconnectTimer that leaves the flag set
reconnectTimerKeepsFlag ==
    /\ running
    /\ timers > 0
    /\ timers' = timers - 1
    /\ connectCall("timer")
    /\ UNCHANGED <<procVars, lastUpsert, uiVars, relayVars, sock, socks, emitted, issued,
                   lastClose, reconnecting>>

\* the reconnect timer fires
reconnectTimer ==
    /\ running
    /\ timers > 0
    /\ timers' = timers - 1
    /\ reconnecting' = FALSE
    /\ connectCall("timer")
    /\ UNCHANGED <<procVars, lastUpsert, uiVars, relayVars, sock, socks, emitted, issued, lastClose>>

\* a variant of disconnectBody that drops the socket without ending it
disconnectBodyDropsSocket(inb, cl) ==
    /\ sock' = 0
    /\ inbox' = inb
    /\ UNCHANGED <<emitted, issued, reconnecting, timers, socks, lastClose>>

\* WhatsAppClient.disconnect; sock.end(undefined) reports the close of a socket
\* that has not closed yet to the connection.update handler before it returns
disconnectBody(inb, cl) ==
    IF sock # 0 /\ Live(sock)
    THEN /\ handleUpdate(inb, cl, sock, "none", "close", "undefined")
         /\ sock' = 0
    ELSE /\ sock' = 0
         /\ inbox' = inb
         /\ UNCHANGED <<emitted, issued, reconnecting, timers, socks, lastClose>>

disconnect ==
    /\ running
    /\ wa
    /\ disconnectBody(inbox, clients)
    /\ UNCHANGED <<procVars, lastUpsert, uiVars, wss, wa, clients, readyState, joinedAt, nCmds, last, pending, connecting>>

\* ---------------------------------------------------------------- messages
\* a field of a payload that is absent
undefined == "undefined"

\* a text field passes an if (...) when it is there and not the empty string
truthy(v) == v # undefined /\ v # ""

\* msg.key: fromMe and remoteJid
Key(fromMe, jid) == [fromMe |-> fromMe, remoteJid |-> jid]

Keys ==
    {Key(FALSE, "1234@s.whatsapp.net"), Key(FALSE, "99@g.us"),
     Key(TRUE, "1234@s.whatsapp.net"), Key(FALSE, "status@broadcast")}

\* msg.message when it is there: the fields extractMessageContent reads
SomePayloads ==
    [present : {TRUE},
     conversation : {undefined, "", "hi"},
     extendedText : {undefined, "re"},
     imageCaption : {undefined, "pic"},
     videoCaption : {undefined, "vid"},
     documentCaption : {undefined, "doc"},
     audioMessage : BOOLEAN]

\* a raw message without msg.message
NoPayload ==
    [present |-> FALSE, conversation |-> undefined, extendedText |-> undefined,
     imageCaption |-> undefined, videoCaption |-> undefined,
     documentCaption |-> undefined, audioMessage |-> FALSE]

Payloads == SomePayloads \cup {NoPayload}

RawMessages == [key : Keys, message : Payloads]

Text(jid, fromMe, body) ==
    [key |-> Key(fromMe, jid),
     message |-> [NoPayload EXCEPT !.present = TRUE, !.conversation = body]]

\* the messages that batches of two are made of
PairMessages ==
    {Text("1234@s.whatsapp.net", TRUE, "hi"),
     Text("status@broadcast", FALSE, "hi"),
     Text("1234@s.whatsapp.net", FALSE, "hi"),
     [key |-> Key(FALSE, "99@g.us"),
      message |-> [NoPayload EXCEPT !.present = TRUE, !.imageCaption = "pic"]],
     [key |-> Key(FALSE, "1234@s.whatsapp.net"), message |-> NoPayload]}

PairBatches == {<<a, b>> : a, b \in PairMessages}

Batches == {<<m>> : m \in RawMessages} \cup PairBatches

\* the batches the library delivers: new messages ('notify') and, for some of
\* them, messages of the history ('append')
Upserts ==
    [type : {"notify"}, messages : Batches] \cup [type : {"append"}, messages : PairBatches]

\* a variant of extractMessageContent that looks at the media before the text
extractMessageContentMediaFirst(msg) ==
    LET message == msg.message
    IN IF ~message.present THEN "null"
       ELSE IF truthy(message.imageCaption) THEN "[Image] " \o message.imageCaption
       ELSE IF truthy(message.videoCaption) THEN "[Video] " \o message.videoCaption
       ELSE IF truthy(message.documentCaption)
            THEN "[Document] " \o message.documentCaption
       ELSE IF message.audioMessage THEN "[Voice Message]"
       ELSE IF truthy(message.conversation) THEN message.conversation
       ELSE IF truthy(message.extendedText) THEN message.extendedText
       ELSE "null"

\* WhatsAppClient.extractMessageContent; "null" for null
extractMessageContent(msg) ==
    LET message == msg.message
    IN IF ~message.present THEN "null"
       ELSE IF truthy(message.conversation) THEN message.conversation
       ELSE IF truthy(message.extendedText) THEN message.extendedText
       ELSE IF truthy(message.imageCaption) THEN "[Image] " \o message.imageCaption
       ELSE IF truthy(message.videoCaption) THEN "[Video] " \o message.videoCaption
       ELSE IF truthy(message.documentCaption)
            THEN "[Document] " \o message.documentCaption
       ELSE IF message.audioMessage THEN "[Voice Message]"
       ELSE "null"

\* the two continue statements at the head of the loop
skipped(msg) == msg.key.fromMe \/ msg.key.remoteJid = "status@broadcast"

\* one turn of the loop of messages.upsert: the contents passed to onMessage
inbound(msg) ==
    IF skipped(msg) THEN <<>>
    ELSE LET content == extractMessageContent(msg)
         IN IF content = "null" THEN <<>> ELSE <<content>>

\* a variant of inboundOf whose loop returns at the first message it skips
inboundOfReturnsAtSkip(messages) ==
    LET f[i \in 0..Len(messages)] ==
            IF i = 0 THEN <<>>
            ELSE IF \E j \in 1..i : skipped(messages[j]) THEN f[i - 1]
            ELSE f[i - 1] \o inbound(messages[i])
    IN f[Len(messages)]

\* the loop of messages.upsert over the batch
inboundOf(messages) ==
    LET f[i \in 0..Len(messages)] ==
            IF i = 0 THEN <<>> ELSE f[i - 1] \o inbound(messages[i])
    IN f[Len(messages)]

\* the inbound messages forwarded so far
Forwarded == SelectSeq(emitted, LAMBDA e : e.type = "message")

\* a variant of messagesUpsert that forwards the batches of every type
messagesUpsertAnyType(s, type, messages) ==
    /\ running
    /\ socks[s] = "open"
    /\ LET contents == inboundOf(messages)
           evs == [i \in 1..Len(contents) |->
                      Env("message", contents[i], Len(emitted) + i)]
       IN /\ Len(Forwarded) + Len(evs) <= MaxMessages
          /\ Len(emitted) + Len(evs) <= MaxEvents
          /\ emitted' = emitted \o evs
          /\ inbox' = broadcastAll(inbox, clients, evs)
    /\ lastUpsert' = [type |-> type, messages |-> messages]
    /\ UNCHANGED <<wss, wa, clients, readyState, joinedAt, nCmds, last, pending,
                   adapterVars, issued, procVars, uiVars>>

\* the library delivers a batch of messages on an open socket
messagesUpsert(s, type, messages) ==
    /\ running
    /\ socks[s] = "open"
    /\ LET contents == IF type # "notify" THEN <<>> ELSE inboundOf(messages)
           evs == [i \in 1..Len(contents) |->
                      Env("message", contents[i], Len(emitted) + i)]
       IN /\ Len(Forwarded) + Len(evs) <= MaxMessages
          /\ Len(emitted) + Len(evs) <= MaxEvents
          /\ emitted' = emitted \o evs
          /\ inbox' = broadcastAll(inbox, clients, evs)
    /\ lastUpsert' = [type |-> type, messages |-> messages]
    /\ UNCHANGED <<wss, wa, clients, readyState, joinedAt, nCmds, last, pending,
                   adapterVars, issued, procVars, uiVars>>

\* ---------------------------------------------------------------- relay
\* the relay's fields as stop() finds them, and the steps stop() has run
relay ==
    [clients |-> clients, readyState |-> readyState, wss |-> wss,
     listener |-> listener, wa |-> wa, ran |-> <<>>]

\* what a step of stop() finds when it runs: the peers registered, those of
\* them that can be written to, and whether the listener accepts connections
found(r, step) ==
    [step |-> step,
     clients |-> r.clients,
     writable |-> {p \in r.clients : r.readyState[p] = "OPEN"},
     accepting |-> r.listener \in {"binding", "listening"}]

\* stop(): client.close() for every client, then clients.clear()
closeClients(r) ==
    [r EXCEPT !.readyState = [p \in Peers |->
                  IF p \in r.clients /\ r.readyState[p] = "OPEN"
                  THEN "CLOSING_LOCAL" ELSE r.readyState[p]],
              !.clients = {},
              !.ran = Append(@, found(r, "closeClients"))]

\* stop(): wss.close() and wss = null
closeListener(r) ==
    IF r.wss
    THEN [r EXCEPT !.wss = FALSE, !.listener = "closed",
                   !.ran = Append(@, found(r, "closeListener"))]
    ELSE r

\* stop(): await wa.disconnect() and wa = null
disconnectAdapter(r) ==
    IF r.wa
    THEN [r EXCEPT !.wa = FALSE, !.ran = Append(@, found(r, "disconnectAdapter"))]
    ELSE r

\* a variant of stopRun that disconnects the adapter first
stopRunAdapterFirst == closeListener(closeClients(disconnectAdapter(relay)))

\* the steps of stop() in the order of its statements
stopRun == disconnectAdapter(closeListener(closeClients(relay)))

\* what the step of stop() named step found, if it ran
foundBy(step) == {f \in {stopRun.ran[i] : i \in DOMAIN stopRun.ran} : f.step = step}

\* BridgeServer.stop; it runs to its end without a suspension that lets
\* another handler in (disconnect() awaits nothing); the adapter's close event
\* is broadcast to the clients registered when disconnect() is called
stopBody ==
    /\ running
    /\ wss \/ wa
    /\ LET r == stopRun
       IN /\ readyState' = r.readyState
          /\ clients' = r.clients
          /\ wss' = r.wss
          /\ listener' = r.listener
          /\ wa' = r.wa
    /\ IF wa THEN \E f \in foundBy("disconnectAdapter") : disconnectBody(inbox, f.writable)
       ELSE UNCHANGED <<sock, emitted, inbox, issued, reconnecting, timers, socks, lastClose>>
    /\ UNCHANGED <<lastUpsert, uiVars, joinedAt, nCmds, last, pending, connecting>>

stop ==
    /\ stopBody
    /\ UNCHANGED exitCode

\* a variant of signal that exits at once
signalExitsAtOnce(sig) ==
    /\ running
    /\ wss \/ wa
    /\ exitCode' = "0"
    /\ UNCHANGED <<relayVars, adapterVars, emitted, issued, listener, lastUpsert, uiVars>>

\* index.ts: the handlers of SIGINT and SIGTERM await stop() and exit with 0
signal(sig) ==
    /\ stopBody
    /\ exitCode' = "0"

\* a variant of peerConnect that replays the events emitted so far to the new peer
peerConnectReplay(p) ==
    /\ running
    /\ wss /\ listener = "listening"
    /\ readyState[p] = "NONE"
    /\ \A q \in Peers : q < p => readyState[q] # "NONE"
    /\ readyState' = [readyState EXCEPT ![p] = "OPEN"]
    /\ clients' = clients \cup {p}
    /\ joinedAt' = [joinedAt EXCEPT ![p] = Len(emitted)]
    /\ inbox' = [inbox EXCEPT ![p] = emitted]
    /\ UNCHANGED <<procVars, lastUpsert, uiVars, wss, wa, nCmds, last, pending, adapterVars, emitted, issued>>

\* the port is bound: the WebSocketServer accepts connections
listening ==
    /\ running
    /\ listener = "binding"
    /\ listener' = "listening"
    /\ UNCHANGED <<relayVars, adapterVars, emitted, issued, exitCode, lastUpsert, uiVars>>

\* the port cannot be bound: the WebSocketServer emits 'error', which has no
\* listener, and the uncaught exception ends the process
listenError ==
    /\ running
    /\ listener = "binding"
    /\ listener' = "failed"
    /\ exitCode' = "1"
    /\ UNCHANGED <<relayVars, adapterVars, emitted, issued, lastUpsert, uiVars>>

\* wss.on('connection'): the next peer connects
peerConnect(p) ==
    /\ running
    /\ wss /\ listener = "listening"
    /\ readyState[p] = "NONE"
    /\ \A q \in Peers : q < p => readyState[q] # "NONE"
    /\ readyState' = [readyState EXCEPT ![p] = "OPEN"]
    /\ clients' = clients \cup {p}
    /\ joinedAt' = [joinedAt EXCEPT ![p] = Len(emitted)]
    /\ UNCHANGED <<procVars, lastUpsert, uiVars, wss, wa, inbox, nCmds, last, pending, adapterVars, emitted, issued>>

\* the peer's close frame arrives: its WebSocket is CLOSING until 'close' is emitted
peerClosing(p) ==
    /\ running
    /\ readyState[p] = "OPEN"
    /\ readyState' = [readyState EXCEPT ![p] = "CLOSING"]
    /\ UNCHANGED <<procVars, lastUpsert, uiVars, wss, wa, clients, inbox, joinedAt, nCmds, last, pending, adapterVars,
                   emitted, issued>>

\* a variant of peerClose that clears the registration set
peerCloseClearsAll(p) ==
    /\ running
    /\ readyState[p] \in {"OPEN", "CLOSING", "CLOSING_LOCAL"}
    /\ readyState' = [readyState EXCEPT ![p] = "CLOSED"]
    /\ clients' = {}
    /\ inbox' = unobserved(inbox, {p})
    /\ joinedAt' = [joinedAt EXCEPT ![p] = 0]
    /\ UNCHANGED <<procVars, lastUpsert, uiVars, wss, wa, nCmds, last, pending, adapterVars, emitted, issued>>

\* ws.on('close')
peerClose(p) ==
    /\ running
    /\ readyState[p] \in {"OPEN", "CLOSING", "CLOSING_LOCAL"}
    /\ readyState' = [readyState EXCEPT ![p] = "CLOSED"]
    /\ clients' = clients \ {p}
    /\ inbox' = unobserved(inbox, {p})
    /\ joinedAt' = [joinedAt EXCEPT ![p] = 0]
    /\ UNCHANGED <<procVars, lastUpsert, uiVars, wss, wa, nCmds, last, pending, adapterVars, emitted, issued>>

\* ws.on('error'): the WebSocket is CLOSING when 'error' is emitted
peerError(p) ==
    /\ running
    /\ readyState[p] \in {"OPEN", "CLOSING"}
    /\ p \in clients
    /\ readyState' = [readyState EXCEPT ![p] = "CLOSING"]
    /\ clients' = clients \ {p}
    /\ UNCHANGED <<procVars, lastUpsert, uiVars, wss, wa, inbox, joinedAt, nCmds, last, pending, adapterVars, emitted, issued>>

\* BridgeServer.handleCommand: the command is forwarded to the adapter
forwards(kind) == kind = "send" /\ wa

\* WhatsAppClient.sendMessage throws before it reaches the library
notConnected == sock = 0

\* what the message handler has done when it first suspends or ends:
\* the error it caught, "sent", or "pending" on the library's send
handled(kind) ==
    IF kind = "malformed" THEN "SyntaxError"
    ELSE IF forwards(kind)
         THEN (IF notConnected THEN "Error: Not connected" ELSE "pending")
    ELSE "sent"

\* a variant of replyEnv that acknowledges whatever the outcome
replyEnvAlwaysSent(outcome, to, c) == Env("sent", to, c)

\* the envelope of the handler's reply: 'sent' from the try block, 'error' from the catch
replyEnv(outcome, to, c) ==
    IF outcome = "sent" THEN Env("sent", to, c) ELSE Env("error", outcome, c)

\* a variant of reply that sends through broadcast instead of the sender's WebSocket
replyToAll(inb, p, msg) == broadcast(inb, clients, msg)

\* the handler's ws.send of its reply, on the WebSocket the message came from
reply(inb, p, msg) == wsSend(inb, p, msg)

\* ws.on('message'), up to the first suspension
peerMessage(p, kind, to) ==
    /\ running
    /\ readyState[p] \in {"OPEN", "CLOSING_LOCAL"}
    /\ nCmds < MaxCmds
    /\ to = (IF kind = "send" THEN Dests[1] ELSE "undefined")
    /\ LET c == nCmds + 1
           outcome == handled(kind)
       IN /\ nCmds' = c
          /\ last' = [peer |-> p, kind |-> kind]
          /\ pending' = IF outcome = "pending"
                        THEN pending \cup {[id |-> c, peer |-> p, to |-> to]}
                        ELSE pending
          /\ inbox' = IF outcome = "pending" THEN inbox
                      ELSE reply(inbox, p, replyEnv(outcome, to, c))
    /\ UNCHANGED <<procVars, lastUpsert, uiVars, wss, wa, clients, readyState, joinedAt, adapterVars, emitted, issued>>

\* the library's sock.sendMessage settles and the handler replies
sendSettled(h, ok) ==
    /\ running
    /\ h \in pending
    /\ pending' = pending \ {h}
    /\ inbox' = reply(inbox, h.peer,
                      replyEnv(IF ok THEN "sent" ELSE "Error: send failed", h.to, h.id))
    /\ UNCHANGED <<procVars, lastUpsert, uiVars, wss, wa, clients, readyState, joinedAt, nCmds, last, adapterVars,
                   emitted, issued>>

\* ---------------------------------------------------- EnvironmentSwitcher
Environments == {"testnet", "mainnet"}
Configs == [hasTestnetKey : BOOLEAN, hasMainnetKey : BOOLEAN]
Boxes == {"understandRealMoney", "confirmSwitch"}

\* lines 44-47
targetEnvironment == IF currentEnvironment = "testnet" THEN "mainnet" ELSE "testnet"
isMainnetSwitch == targetEnvironment = "mainnet"

\* lines 131-134
allChecksPassed == checks.noOpenPositions /\ checks.credentialsConfigured
canProceed ==
    IF isMainnetSwitch
    THEN allChecksPassed /\ confirmations.understandRealMoney /\ confirmations.confirmSwitch
    ELSE allChecksPassed

\* the parent renders the component for an account, with the dialog closed
mountSwitcher(env, cfg, n) ==
    /\ ~mounted
    /\ mounted' = TRUE
    /\ currentEnvironment' = env
    /\ config' = cfg
    /\ positions' = n
    /\ UNCHANGED <<bridgeVars, modeVars, open, checks, confirmations, loading, preflights, opening,
                   checkedAt, requests>>

\* the parent opens the dialog; the effect on [open] calls
\* performPreflightChecks(), which suspends on getHyperliquidPositions, and
\* resetConfirmations()
openDialog ==
    /\ mounted /\ ~open
    /\ opening < MaxOpenings
    /\ open' = TRUE
    /\ opening' = opening + 1
    /\ preflights' = preflights \cup
          {[opening |-> opening + 1, target |-> targetEnvironment,
            stage |-> "positions", noPositions |-> FALSE]}
    /\ confirmations' = [understandRealMoney |-> FALSE, confirmSwitch |-> FALSE]
    /\ UNCHANGED <<bridgeVars, modeVars, mounted, currentEnvironment, checks, loading, positions, config,
                   checkedAt, requests>>

\* onOpenChange(false) from the Cancel button or from the Dialog itself
closeDialog ==
    /\ mounted /\ open
    /\ open' = FALSE
    /\ UNCHANGED <<bridgeVars, modeVars, mounted, currentEnvironment, checks, confirmations, loading,
                   positions, config, preflights, opening, checkedAt, requests>>

\* performPreflightChecks: getHyperliquidPositions resolves (lines 59-60) and
\* the call suspends on getHyperliquidConfig
positionsResolved(pf) ==
    /\ pf \in preflights /\ pf.stage = "positions"
    /\ preflights' = (preflights \ {pf}) \cup
          {[pf EXCEPT !.stage = "config", !.noPositions = (positions = 0)]}
    /\ UNCHANGED <<bridgeVars, modeVars, mounted, open, currentEnvironment, checks, confirmations, loading,
                   positions, config, opening, checkedAt, requests>>

\* performPreflightChecks: getHyperliquidConfig resolves (lines 63-72); the
\* target environment is that of the render whose effect made the call
configResolved(pf) ==
    /\ pf \in preflights /\ pf.stage = "config"
    /\ preflights' = preflights \ {pf}
    /\ checks' = [noOpenPositions |-> pf.noPositions,
                  credentialsConfigured |->
                      IF pf.target = "testnet" THEN config.hasTestnetKey
                      ELSE config.hasMainnetKey]
    /\ checkedAt' = pf.opening
    /\ UNCHANGED <<bridgeVars, modeVars, mounted, open, currentEnvironment, confirmations, loading,
                   positions, config, opening, requests>>

\* performPreflightChecks: one of its requests fails; the catch logs (lines 73-75)
preflightFailed(pf) ==
    /\ pf \in preflights
    /\ preflights' = preflights \ {pf}
    /\ UNCHANGED <<bridgeVars, modeVars, mounted, open, currentEnvironment, checks, confirmations, loading,
                   positions, config, opening, checkedAt, requests>>

\* the user ticks or unticks a checkbox (lines 212-241)
toggle(box) ==
    /\ mounted /\ open /\ isMainnetSwitch
    /\ confirmations' = [confirmations EXCEPT ![box] = ~@]
    /\ UNCHANGED <<bridgeVars, modeVars, mounted, open, currentEnvironment, checks, loading, positions,
                   config, preflights, opening, checkedAt, requests>>

\* the guards of handleSwitch (lines 86-101)
mayRequest ==
    /\ checks.noOpenPositions
    /\ checks.credentialsConfigured
    /\ isMainnetSwitch => (confirmations.understandRealMoney /\ confirmations.confirmSwitch)

\* the user clicks the switch button, which is disabled unless canProceed
\* (line 263): handleSwitch up to its await of switchEnvironment
handleSwitch ==
    /\ mounted /\ open
    /\ ~loading /\ canProceed
    /\ Len(requests) < MaxRequests
    /\ IF mayRequest
       THEN /\ loading' = TRUE
            /\ requests' = Append(requests, [targetEnvironment |-> targetEnvironment,
                                              opening |-> opening])
       ELSE UNCHANGED <<loading, requests>>
    /\ UNCHANGED <<bridgeVars, modeVars, mounted, open, currentEnvironment, checks, confirmations,
                   positions, config, preflights, opening, checkedAt>>

\* switchEnvironment settles (lines 110-128); after a success the dialog is
\* closed and the parent, told by onSwitchComplete, renders the new environment
switchSettled(success) ==
    /\ loading
    /\ loading' = FALSE
    /\ IF success
       THEN /\ open' = FALSE
            /\ currentEnvironment' = requests[Len(requests)].targetEnvironment
       ELSE UNCHANGED <<open, currentEnvironment>>
    /\ UNCHANGED <<bridgeVars, modeVars, mounted, checks, confirmations, positions, config, preflights,
                   opening, checkedAt, requests>>

\* the account's trader opens or closes a position
positionsChange(n) ==
    /\ mounted
    /\ n # positions
    /\ positions' = n
    /\ UNCHANGED <<bridgeVars, modeVars, mounted, open, currentEnvironment, checks, confirmations, loading,
                   config, preflights, opening, checkedAt, requests>>

\* ----------------------------------------------------- TradingModeContext
TradingModes == {"testnet", "mainnet"}

\* what localStorage.getItem('trading_mode') can return: null, a mode, or a
\* string stored by something else
Stored == {"null", "testnet", "mainnet", "paper"}

\* getInitialMode (lines 27-31), in the browser
getInitialMode(saved) == IF saved \in TradingModes THEN saved ELSE "testnet"

\* a variant of synced in which a mode stored locally wins
syncedLocalWins(mode) ==
    IF localStorage \notin TradingModes
    THEN [localStorage |-> mode, tradingMode |-> mode]
    ELSE [localStorage |-> localStorage, tradingMode |-> tradingMode]

\* syncWithBackend after its await (lines 41-50): what it leaves in
\* localStorage and in the state
synced(mode) ==
    IF mode # localStorage
    THEN [localStorage |-> mode, tradingMode |-> mode]
    ELSE [localStorage |-> localStorage, tradingMode |-> tradingMode]

\* the page is loaded: the provider mounts, its state comes from
\* getInitialMode and its effect calls syncWithBackend(), which suspends on
\* getGlobalTradingMode
mount(saved) ==
    /\ page' = page + 1
    /\ tradingMode' = getInitialMode(saved)
    /\ sync' = [stage |-> "sent", mode |-> "none"]
    /\ setCall' = [stage |-> "none", mode |-> "none"]

\* the first visit: the browser holds some value, the backend some mode
visit(saved, mode) ==
    /\ page = 0
    /\ localStorage' = saved
    /\ backendMode' = mode
    /\ mount(saved)
    /\ UNCHANGED <<bridgeVars, switcherVars, lastSet>>

\* the backend answers getGlobalTradingMode
syncAnswered ==
    /\ sync.stage = "sent"
    /\ sync' = [stage |-> "answered", mode |-> backendMode]
    /\ UNCHANGED <<bridgeVars, switcherVars, page, tradingMode, localStorage, backendMode,
                   setCall, lastSet>>

\* getGlobalTradingMode resolves: lines 41-50
syncResolved ==
    /\ sync.stage = "answered"
    /\ localStorage' = synced(sync.mode).localStorage
    /\ tradingMode' = synced(sync.mode).tradingMode
    /\ sync' = [stage |-> "done", mode |-> sync.mode]
    /\ UNCHANGED <<bridgeVars, switcherVars, page, backendMode, setCall, lastSet>>

\* getGlobalTradingMode rejects: the catch logs (lines 51-53)
syncFailed ==
    /\ sync.stage \in {"sent", "answered"}
    /\ sync' = [stage |-> "failed", mode |-> "none"]
    /\ UNCHANGED <<bridgeVars, switcherVars, page, tradingMode, localStorage, backendMode,
                   setCall, lastSet>>

\* setTradingMode(mode) up to its await of setGlobalTradingMode (lines 60-65)
setTradingMode(mode) ==
    /\ page > 0 /\ page < MaxPages
    /\ setCall.stage = "none"
    /\ setCall' = [stage |-> "sent", mode |-> mode]
    /\ UNCHANGED <<bridgeVars, switcherVars, page, tradingMode, localStorage, backendMode,
                   sync, lastSet>>

\* the backend applies setGlobalTradingMode
setApplied ==
    /\ setCall.stage = "sent"
    /\ backendMode' = setCall.mode
    /\ setCall' = [setCall EXCEPT !.stage = "applied"]
    /\ UNCHANGED <<bridgeVars, switcherVars, page, tradingMode, localStorage, sync, lastSet>>

\* setTradingMode after its await: the mode is stored and the page reloaded,
\* from the try block (lines 69-73) when the call resolved, from the catch
\* (lines 77-78) when it rejected, before or after the backend applied it
setSettled(ok) ==
    /\ IF ok THEN setCall.stage = "applied" ELSE setCall.stage \in {"sent", "applied"}
    /\ localStorage' = setCall.mode
    /\ mount(setCall.mode)
    /\ lastSet' = [ok |-> ok, mode |-> setCall.mode]
    /\ UNCHANGED <<bridgeVars, switcherVars, backendMode>>

\* ------------------------------------------------------- specifications
AdapterEnv(QR) ==
    \/ \E o \in Origins : connectOpen(o)
    \/ \E o \in Origins : connectFail(o)
    \/ \E s \in SockIds, hasQR \in QR, connection \in {"none", "open", "close"},
          statusCode \in StatusCodes :
            connectionUpdate(s, IF hasQR THEN QRChallenges[Len(issued) + 1] ELSE "none",
                             connection, statusCode)
    \/ reconnectTimer

PeerEnv ==
    \/ listening
    \/ \E p \in Peers : peerConnect(p)
    \/ \E p \in Peers : peerClosing(p)
    \/ \E p \in Peers : peerClose(p)
    \/ \E p \in Peers : peerError(p)

\* every operation of the two classes and of their environment
Next ==
    \/ start
    \/ stop
    \/ connect
    \/ disconnect
    \/ AdapterEnv(BOOLEAN)
    \/ PeerEnv
    \/ \E p \in Peers, kind \in MessageKinds, to \in {Dests[1], "undefined"} :
          peerMessage(p, kind, to)
    \/ \E h \in pending, ok \in BOOLEAN : sendSettled(h, ok)

Spec == Init /\ [][Next]_vars

\* The three parts of Spec that are checked.
\* The relay and its commands: the owner calls start() and stop(), the peers
\* connect, send and close; one session, paired already (no QR challenge)
NextCommands ==
    \/ start
    \/ stop
    \/ \E o \in Origins : connectOpen(o)
    \/ \E o \in Origins : connectFail(o)
    \/ \E s \in SockIds, connection \in {"open", "close"}, statusCode \in StatusCodes :
          connectionUpdate(s, "none", connection, statusCode)
    \/ PeerEnv
    \/ \E p \in Peers, kind \in MessageKinds, to \in {Dests[1], "undefined"} :
          peerMessage(p, kind, to)
    \/ \E h \in pending, ok \in BOOLEAN : sendSettled(h, ok)

SpecCommands == Init /\ [][NextCommands]_vars

\* the relay and the adapter's events, QR challenges and reconnects included;
\* no commands
NextEvents ==
    \/ start
    \/ stop
    \/ AdapterEnv(BOOLEAN)
    \/ PeerEnv

SpecEvents == Init /\ [][NextEvents]_vars

\* the adapter as a class: its owner also calls connect() and disconnect()
\* at any time; no peers
NextAdapter ==
    \/ start
    \/ stop
    \/ connect
    \/ disconnect
    \/ AdapterEnv(BOOLEAN)

SpecAdapter == Init /\ [][NextAdapter]_vars

\* the adapter's inbound messages: one session, paired already, no peers
NextMessages ==
    \/ start
    \/ \E o \in Origins : connectOpen(o)
    \/ \E s \in SockIds : connectionUpdate(s, "none", "open", "undefined")
    \/ \E s \in SockIds, u \in Upserts : messagesUpsert(s, u.type, u.messages)

SpecMessages == Init /\ [][NextMessages]_vars

Signals == {"SIGINT", "SIGTERM"}

\* the process of index.ts: it calls start() once, and stop() from the handlers
\* of its signals only; nobody else calls the adapter
NextProcess ==
    \/ start
    \/ listenError
    \/ \E sig \in Signals : signal(sig)
    \/ AdapterEnv(BOOLEAN)
    \/ PeerEnv

SpecProcess == Init /\ [][NextProcess]_vars

\* the environment switching dialog, its user and its backend
NextSwitcher ==
    \/ \E env \in Environments, cfg \in Configs, n \in 0..MaxPositions :
          mountSwitcher(env, cfg, n)
    \/ openDialog
    \/ closeDialog
    \/ \E pf \in preflights : positionsResolved(pf)
    \/ \E pf \in preflights : configResolved(pf)
    \/ \E pf \in preflights : preflightFailed(pf)
    \/ \E box \in Boxes : toggle(box)
    \/ handleSwitch
    \/ \E success \in BOOLEAN : switchSettled(success)
    \/ \E n \in 0..MaxPositions : positionsChange(n)

SpecSwitcher == Init /\ [][NextSwitcher]_vars

\* the trading mode provider of one page, its user and the backend
NextMode ==
    \/ \E saved \in Stored, mode \in TradingModes : visit(saved, mode)
    \/ syncAnswered
    \/ syncResolved
    \/ syncFailed
    \/ \E mode \in TradingModes : setTradingMode(mode)
    \/ setApplied
    \/ \E ok \in BOOLEAN : setSettled(ok)

SpecMode == Init /\ [][NextMode]_vars

\* ---------------------------------------------------------------- properties
\* a close event was handled in this step
CloseStep == \E s \in SockIds : Live(s) /\ socks'[s] = "closed"

\* reconnect attempts that are pending (a timer) or in progress (its connect())
ReconnectAttempts == timers + connecting["timer"]

\* C1: after every close event whose status code is not the logged-out code
\* exactly one reconnect attempt is scheduled, and at no time are two
\* reconnect attempts pending or in progress.
C1_ReconnectScheduledExactlyOnce ==
    [][/\ ReconnectAttempts' <= 1
       /\ (CloseStep /\ lastClose' = "other") => ReconnectAttempts' = 1]_vars

\* C2: once a close event carried the logged-out code, the adapter calls
\* connect() no more (not from a timer that was pending either) until its
\* owner calls connect() again.
C2_NoReconnectAfterLogout ==
    [][/\ (CloseStep /\ lastClose' = "loggedOut") => timers' = timers
       /\ lastClose = "loggedOut" => connecting'["timer"] <= connecting["timer"]]_vars

\* C3: the adapter owns at most one socket that has not closed (with its
\* handlers forwarding events to the relay) at any time.
C3_AtMostOneSession == Cardinality(LiveSocks) <= 1

IsReply(e) == e.type \in {"sent", "error"}
IsQR(e) == e.type = "qr"

\* the handler of a peer message ran in this step, up to its first suspension
MessageStep == nCmds' = nCmds + 1

\* no socket of the adapter is open
NoLiveConnection == \A s \in SockIds : socks[s] # "open"

\* the replies with command id c that peer p has received
RepliesWithId(p, c) ==
    Cardinality({i \in DOMAIN inbox[p] : IsReply(inbox[p][i]) /\ inbox[p][i].id = c})

\* in this step peer p got one more envelope, e, and that is all it got
Received(p, e) == inbox'[p] = Append(inbox[p], e)

\* in this step nothing reached a peer other than p
OnlyTo(p) == \A q \in Peers \ {p} : inbox'[q] = inbox[q]

\* C4: a send command handled while the adapter has no live connection fails
\* with the not-connected error: the library's send is not invoked and the
\* sending peer receives the error reply 'Not connected'.
C4_NotConnectedWithoutLiveConnection ==
    [][(MessageStep /\ last'.kind = "send" /\ NoLiveConnection) =>
          /\ pending' = pending
          /\ readyState[last'.peer] = "OPEN" =>
                Received(last'.peer, Env("error", "Error: Not connected", nCmds'))]_vars

\* in this step the handler of command c replied to peer p, which received one
\* reply (sent or error) if its channel is open, and no other peer received
\* anything
RepliedTo(p, c) ==
    /\ OnlyTo(p)
    /\ IF readyState[p] = "OPEN"
       THEN \E e \in {inbox'[p][Len(inbox'[p])]} :
               Received(p, e) /\ IsReply(e) /\ e.id = c
       ELSE inbox'[p] = inbox[p]

\* C5: a valid send command gets exactly one reply, sent or error, delivered
\* to the peer that sent it (whose channel is open) and to no other peer:
\* one when its handler ends, none before, and never a second one.
C5_ExactlyOneReplyToSender ==
    [][/\ (MessageStep /\ last'.kind = "send" /\ pending' = pending) =>
             RepliedTo(last'.peer, nCmds')
       /\ (MessageStep /\ last'.kind = "send" /\ pending' # pending) => inbox' = inbox
       /\ \A h \in pending \ pending' : RepliedTo(h.peer, h.id)
       /\ \A c \in 1..MaxCmds :
             /\ \A p, q \in Peers :
                   p # q => (RepliesWithId(p, c) = 0 \/ RepliesWithId(q, c) = 0)'
             /\ \A p \in Peers : (RepliesWithId(p, c) <= 1)'
             /\ \A p \in Peers :
                   (c \in {h.id : h \in pending} => RepliesWithId(p, c) = 0)']_vars

\* two peers with open channels, one of which has its 'sent' acknowledgment
C5_Witness ==
    \E p, q \in Peers :
        /\ p # q /\ readyState[p] = "OPEN" /\ readyState[q] = "OPEN"
        /\ \E i \in DOMAIN inbox[p] : inbox[p][i].type = "sent" /\ last.kind = "send"

\* the handling of a peer message leaves the adapter, the registrations and
\* the listener as they were
Isolated == UNCHANGED <<adapterVars, emitted, issued, clients, readyState, wss, wa>>

\* in this step peer p, if its channel is open, received the error reply to
\* command c, and no other peer received anything
ErrorRepliedTo(p, c) ==
    /\ OnlyTo(p)
    /\ IF readyState[p] = "OPEN"
       THEN \E e \in {inbox'[p][Len(inbox'[p])]} :
               Received(p, e) /\ e.type = "error" /\ e.id = c
       ELSE inbox'[p] = inbox[p]

\* C6: a peer message that fails (malformed JSON, an adapter send that throws)
\* gives an error reply to that peer only; the adapter, the registration set
\* and what the other peers have received are unchanged, and no peer ever
\* holds the reply to another peer's message.
C6_FailureIsolatedToSender ==
    [][/\ (MessageStep /\ last'.kind = "malformed") => ErrorRepliedTo(last'.peer, nCmds')
       /\ (MessageStep /\ last'.kind = "send" /\ wa /\ sock = 0) =>
             ErrorRepliedTo(last'.peer, nCmds')
       /\ \A h \in pending \ pending' : OnlyTo(h.peer)
       /\ (MessageStep \/ pending' # pending) => Isolated
       /\ \A q \in Peers \ {last'.peer} : (RepliesWithId(q, nCmds) = 0)'
       /\ \A h \in pending', q \in Peers : (RepliesWithId(q, h.id) = 0)']_vars

\* two peers with open channels: one holds a 'sent' acknowledgment, the other
\* the error reply to its malformed message
C6_Witness ==
    \E p, q \in Peers :
        /\ p # q /\ readyState[p] = "OPEN" /\ readyState[q] = "OPEN"
        /\ \E i \in DOMAIN inbox[p] : inbox[p][i].type = "sent"
        /\ \E i \in DOMAIN inbox[q] : inbox[q][i] = Env("error", "SyntaxError", nCmds)
        /\ last = [peer |-> q, kind |-> "malformed"]

\* C7: a peer message that is JSON of another kind than 'send' gets no error
\* reply and causes nothing: no adapter send, nothing sent, nothing broadcast.
C7_UnknownKindIsNoOp ==
    [][(MessageStep /\ last'.kind = "other") =>
          (pending' = pending /\ inbox' = inbox /\ emitted' = emitted)]_vars

\* the events emitted in this step
NewEvents == SubSeq(emitted', Len(emitted) + 1, Len(emitted'))

\* C8: an event is sent once to every peer that is registered with an open
\* channel when it is broadcast, and to no other peer, then or later: a peer's
\* inbox grows by exactly the events broadcast while it is registered and open.
C8_BroadcastToRegisteredOpenPeers ==
    [][\A p \in Peers :
          IF readyState'[p] \in {"NONE", "CLOSED"} THEN inbox'[p] = <<>>
          ELSE IF p \in clients' /\ readyState'[p] = "OPEN"
               THEN inbox'[p] = inbox[p] \o NewEvents
               ELSE inbox'[p] = inbox[p]]_vars

\* one registered open peer has received an event; another registered peer,
\* whose channel is closing, has received none of the events emitted since it
\* joined
C8_Witness ==
    \E p, q \in clients :
        /\ readyState[p] = "OPEN" /\ inbox[p] # <<>>
        /\ readyState[q] = "CLOSING" /\ joinedAt[q] < Len(emitted) /\ inbox[q] = <<>>

\* C9: every QR challenge the library issues is forwarded as its own qr event,
\* and a peer registered before the first event, with its channel open, has
\* received exactly the events emitted, in the order of their emission.
C9_QRForwardedInOrder ==
    /\ LET qrs == SelectSeq(emitted, IsQR)
       IN [i \in DOMAIN qrs |-> qrs[i].val] = issued
    /\ \A p \in clients :
          (readyState[p] = "OPEN" /\ joinedAt[p] = 0) => inbox[p] = emitted

\* three QR challenges, then the connected status, all received in that order
C9_Witness ==
    /\ 1 \in clients /\ readyState[1] = "OPEN" /\ joinedAt[1] = 0
    /\ Len(emitted) = 4
    /\ \A i \in 1..3 : emitted[i].type = "qr"
    /\ emitted[4] = Env("status", "connected", 4)
    /\ inbox[1] = emitted

\* C10: a peer receives only events emitted after it was registered, and
\* nothing when it connects.
C10_NoReplayToNewPeer ==
    \A p \in Peers :
        /\ \A i \in DOMAIN inbox[p] : inbox[p][i].id > joinedAt[p]
        /\ (readyState[p] = "OPEN" /\ joinedAt[p] = Len(emitted)) => inbox[p] = <<>>

\* a peer that joined after the first event and has received a later one
C10_Witness ==
    \E p \in Peers :
        readyState[p] = "OPEN" /\ joinedAt[p] >= 1 /\ Len(inbox[p]) >= 1

\* stop() ran in this step
StopStep == wa /\ ~wa'

\* the steps of stop(), in the order they ran
StepsOfStop == [i \in DOMAIN stopRun.ran |-> stopRun.ran[i].step]

\* C11: stop() closes every registered peer connection, then stops the
\* listener, then disconnects the adapter: when the adapter is disconnected no
\* peer is registered and the listener accepts no connection, so the close
\* event of the teardown reaches no peer.
C11_StopClosesPeersThenListenerThenAdapter ==
    [][StopStep =>
          /\ StepsOfStop = <<"closeClients", "closeListener", "disconnectAdapter">>
          /\ \A f \in foundBy("disconnectAdapter") : f.clients = {} /\ ~f.accepting
          /\ \A f \in foundBy("closeListener") : f.clients = {}
          /\ clients' = {} /\ ~wss' /\ listener' = "closed" /\ sock' = 0
          /\ \A p \in Peers : readyState'[p] # "OPEN"
          /\ inbox' = inbox]_vars

\* stop() has run with a peer registered and a socket alive: the peer was
\* closed and has everything but the close event of the teardown
C11_Witness ==
    /\ ~wa /\ ~wss /\ listener = "closed" /\ sock = 0
    /\ emitted # <<>>
    /\ emitted[Len(emitted)] = Env("status", "disconnected", Len(emitted))
    /\ \E p \in Peers :
          /\ readyState[p] = "CLOSING_LOCAL" /\ joinedAt[p] = 0
          /\ Len(inbox[p]) = Len(emitted) - 1

\* C12: after disconnect() or stop() the adapter does not reconnect on its
\* own: when the call returns no reconnect timer is pending, neither one
\* scheduled before nor one scheduled by the close event of the teardown.
C12_NoReconnectAfterTeardown ==
    [][(sock # 0 /\ sock' = 0) => timers' = 0]_vars

\* C13: start() calls the adapter's connect() only once the listener is
\* listening: no connection attempt of start() begins while the port is not
\* bound yet or after it failed to bind.
C13_ConnectOnlyOnceListening ==
    [][connecting'["start"] > connecting["start"] => listener' = "listening"]_vars
\* the library delivered a batch of new messages in this step
NotifyStep ==
    /\ lastUpsert'.type = "notify"
    /\ lastUpsert' # lastUpsert \/ Len(emitted') > Len(emitted)

\* the contents of the events emitted in this step
NewContents == [i \in DOMAIN NewEvents |-> NewEvents[i].val]

\* the rules of the normalization in their order of precedence: whether each
\* applies to a payload, and the text it gives
Applies(m) ==
    <<truthy(m.conversation), truthy(m.extendedText), truthy(m.imageCaption),
      truthy(m.videoCaption), truthy(m.documentCaption), m.audioMessage>>

Gives(m) ==
    <<m.conversation, m.extendedText, "[Image] " \o m.imageCaption,
      "[Video] " \o m.videoCaption, "[Document] " \o m.documentCaption,
      "[Voice Message]">>

\* C14: the content of a forwarded message is the text of the first rule that
\* applies to its payload, in the order plain text, quoted-reply text,
\* '[Image] caption', '[Video] caption', '[Document] caption',
\* '[Voice Message]'; when no rule applies no event is emitted.
C14_NormalizationPrecedence ==
    [][(NotifyStep /\ Len(lastUpsert'.messages) = 1
           /\ ~skipped(lastUpsert'.messages[1])) =>
          LET m == lastUpsert'.messages[1].message
          IN /\ \A i \in 1..6 :
                   (m.present /\ Applies(m)[i] /\ \A j \in 1..(i - 1) : ~Applies(m)[j])
                       => NewContents = <<Gives(m)[i]>>
             /\ (~m.present \/ \A i \in 1..6 : ~Applies(m)[i]) => NewEvents = <<>>
             /\ \A i \in DOMAIN NewEvents : NewEvents[i].type = "message"]_vars

\* an image with a caption and a voice payload, without text: '[Image] pic'
C14_Witness ==
    /\ lastUpsert.type = "notify"
    /\ Len(lastUpsert.messages) = 1
    /\ ~skipped(lastUpsert.messages[1])
    /\ LET m == lastUpsert.messages[1].message
       IN /\ m.present /\ m.audioMessage /\ m.imageCaption = "pic"
          /\ ~truthy(m.conversation) /\ ~truthy(m.extendedText)
    /\ emitted # <<>>
    /\ emitted[Len(emitted)] = Env("message", "[Image] pic", Len(emitted))

\* a message of a batch that is forwarded if it is not dropped for its content
Forwardable(msg) == ~msg.key.fromMe /\ msg.key.remoteJid # "status@broadcast"

\* C15: a self-sent message and a message of the status broadcast channel
\* produce no inbound-message event, whatever their payload, and the other
\* messages of the batch are forwarded, in their order.
C15_SelfAndBroadcastNeverForwarded ==
    [][NotifyStep =>
          LET batch == lastUpsert'.messages
              kept == {i \in DOMAIN batch :
                          Forwardable(batch[i]) /\ extractMessageContent(batch[i]) # "null"}
          IN /\ Len(NewEvents) = Cardinality(kept)
             /\ \A i \in DOMAIN batch :
                   ~Forwardable(batch[i]) =>
                       (i = 1 /\ Len(batch) = 1 => NewEvents = <<>>)
             /\ \A i \in kept :
                   LET k == Cardinality({j \in kept : j <= i})
                   IN NewContents[k] = extractMessageContent(batch[i])]_vars

\* a batch of a self-sent text and a text of a contact: the second is forwarded
C15_Witness ==
    /\ lastUpsert.type = "notify"
    /\ Len(lastUpsert.messages) = 2
    /\ lastUpsert.messages[1].key.fromMe
    /\ truthy(lastUpsert.messages[1].message.conversation)
    /\ Forwardable(lastUpsert.messages[2])
    /\ Len(Forwarded) = 1
    /\ emitted[Len(emitted)] =
          Env("message", extractMessageContent(lastUpsert.messages[2]), Len(emitted))
\* C16: disconnect() ends the socket the adapter holds; when the adapter holds
\* none (never connected, or disconnect() was called before) it changes
\* nothing, so that a second call leaves the state of the first; when the
\* socket it holds has closed already it only lets go of it.
C16_DisconnectIdempotent ==
    [][/\ (sock # 0 /\ sock' = 0) => socks'[sock] \notin {"connecting", "open"}
       /\ (sock # 0 /\ ~Live(sock) /\ sock' = 0) =>
             UNCHANGED <<socks, emitted, issued, reconnecting, timers, connecting, inbox>>
       /\ (sock = 0 /\ wa /\ running) =>
             (ENABLED disconnect /\ ~ENABLED <<disconnect>>_vars)]_vars

\* disconnect() has ended the first socket, which was alive
C16_Witness ==
    /\ wa /\ sock = 0
    /\ socks[1] = "closed"
    /\ emitted = <<Env("status", "disconnected", 1)>>
\* the status event 'disconnected' was emitted in this step, alone, and every
\* peer registered with an open channel received it
DisconnectedBroadcast ==
    LET ev == Env("status", "disconnected", Len(emitted) + 1)
    IN /\ NewEvents = <<ev>>
       /\ \A p \in clients : readyState[p] = "OPEN" => Received(p, ev)

\* C17: when a connection closes with the logged-out status code a status
\* event is broadcast to every registered peer with an open channel.
C17_LogoutSurfacedToPeers ==
    [][(CloseStep /\ lastClose' = "loggedOut") => DisconnectedBroadcast]_vars

\* the session was logged out and both peers have the status event for it
C17_Witness ==
    /\ lastClose = "loggedOut"
    /\ clients = Peers
    /\ \A p \in Peers :
          /\ readyState[p] = "OPEN" /\ inbox[p] # <<>>
          /\ inbox[p][Len(inbox[p])] = Env("status", "disconnected", Len(emitted))

ConnectFailed(o) == connecting'[o] < connecting[o] /\ socks' = socks

\* C19: a failure to load the credentials makes connect() fail without a
\* socket and without an event; the failure of the connect() of start() makes
\* start() reject, and the process exits with a non-zero code.
C19_CredentialFailureIsFatal ==
    [][/\ \A o \in Origins :
             ConnectFailed(o) =>
                 /\ emitted' = emitted /\ inbox' = inbox
                 /\ sock' = sock /\ timers' = timers /\ reconnecting' = reconnecting
       /\ ConnectFailed("start") => exitCode' = "1"]_vars

\* the listener is up, the connect() of start() has failed: no socket, no
\* event, exit code 1
C19_Witness ==
    /\ exitCode = "1" /\ listener = "listening"
    /\ Created = {} /\ InProgress = 0
    /\ emitted = <<>> /\ sock = 0

\* C20: the process exits with 0 only from the handler of a signal, once
\* stop() has closed the peers, stopped the listener and disconnected the
\* adapter, in that order; a failure of start(), of its listener or of its
\* connect(), exits with 1.
C20_ExitCodes ==
    [][/\ (running /\ exitCode' = "0") =>
             /\ StepsOfStop = <<"closeClients", "closeListener", "disconnectAdapter">>
             /\ clients' = {} /\ \A p \in Peers : readyState'[p] # "OPEN"
             /\ ~wss' /\ listener' = "closed"
             /\ ~wa' /\ sock' = 0
             /\ \A s \in SockIds : socks'[s] \notin {"connecting", "open"}
       /\ (listener # "failed" /\ listener' = "failed") => exitCode' = "1"
       /\ ConnectFailed("start") => exitCode' = "1"]_vars

\* a signal arrived with a peer connected and a session open: exit code 0
C20_Witness ==
    /\ exitCode = "0"
    /\ listener = "closed" /\ sock = 0
    /\ socks[1] = "closed" /\ emitted # <<>>
    /\ emitted[1] = Env("status", "connected", 1)
    /\ \E p \in Peers : readyState[p] = "CLOSING_LOCAL"
\* a 'close' or 'error' handler of a peer's channel changed the registrations
PeerLeft == wss' = wss /\ clients' # clients /\ clients' \subseteq clients

\* C21: when a peer's channel closes or errors, that peer and no other leaves
\* the registration set; the adapter's sockets, timers and events stay as they
\* are; every other peer stays registered with what it has received, and a
\* registered open peer receives every event broadcast afterwards.
C21_PeerRemovalIsLocal ==
    [][/\ PeerLeft =>
             /\ Cardinality(clients \ clients') = 1
             /\ \A p \in clients \ clients' : readyState'[p] \in {"CLOSING", "CLOSED"}
             /\ UNCHANGED <<adapterVars, emitted, issued, wa, listener>>
             /\ \A q \in clients' : readyState'[q] = readyState[q] /\ inbox'[q] = inbox[q]
       /\ \A p \in Peers :
             (readyState[p] # "CLOSED" /\ readyState'[p] = "CLOSED") =>
                 /\ p \notin clients'
                 /\ clients' = clients \ {p}
                 /\ UNCHANGED <<adapterVars, emitted, issued, wa, listener>>
       /\ \A q \in clients :
             (readyState[q] = "OPEN" /\ emitted' # emitted /\ wss') =>
                 inbox'[q] = inbox[q] \o NewEvents]_vars

\* the first peer has gone; the second, registered before the first event,
\* is still registered and has received every event, the session is open
C21_Witness ==
    /\ 1 \notin clients /\ readyState[1] \in {"CLOSING", "CLOSED"}
    /\ 2 \in clients /\ readyState[2] = "OPEN" /\ joinedAt[2] = 0
    /\ Len(emitted) >= 2 /\ inbox[2] = emitted
    /\ sock # 0 /\ socks[sock] = "open"
\* a switch request was issued in this step
SwitchIssued == Len(requests') > Len(requests)

\* C22: a switch request is issued only when the preflight of the current
\* opening of the dialog has completed and found no open position and the
\* target's credentials, and, for a switch to mainnet, with both checkboxes
\* ticked.
C22_SwitchOnlyWhenAllowed ==
    [][SwitchIssued =>
          /\ checkedAt = opening
          /\ checks.noOpenPositions /\ checks.credentialsConfigured
          /\ isMainnetSwitch =>
                (confirmations.understandRealMoney /\ confirmations.confirmSwitch)]_vars
\* the library reported 'open' on a socket in this step
OpenStep == \E s \in SockIds : socks[s] = "connecting" /\ socks'[s] = "open"

\* the status events emitted in this step
NewStatus == SelectSeq(NewEvents, LAMBDA e : e.type = "status")

\* C23: every 'open' event gives exactly one status event, 'connected'; every
\* 'close' event, with the logged-out code or another, gives exactly one
\* status event, 'disconnected'; no other step emits a status event.
C23_OneStatusPerTransition ==
    [][/\ OpenStep => (Len(NewStatus) = 1 /\ NewStatus[1].val = "connected")
       /\ CloseStep => (Len(NewStatus) = 1 /\ NewStatus[1].val = "disconnected")
       /\ ~(OpenStep \/ CloseStep) => NewStatus = <<>>]_vars

\* a QR challenge, the session opened, closed by a logout: three events, of
\* which two status events
C23_Witness ==
    /\ Len(emitted) = 3
    /\ emitted[1].type = "qr"
    /\ emitted[2] = Env("status", "connected", 2)
    /\ emitted[3] = Env("status", "disconnected", 3)
    /\ lastClose = "loggedOut" /\ socks[1] = "closed"
\* disconnect() or stop() dropped the adapter's socket in this step
TeardownStep == sock # 0 /\ sock' = 0

\* C24: after a close event without the logged-out code, not caused by
\* disconnect() or stop(), a reconnect attempt is pending or in progress, and
\* still after a reconnect attempt that fails, whether its socket closes or
\* its connect() rejects; none of these failures ends the process or reaches
\* the relay.
C24_ReconnectSurvivesFailedAttempts ==
    [][/\ (CloseStep /\ lastClose' = "other" /\ ~TeardownStep) =>
             (ReconnectAttempts' >= 1 /\ exitCode' = exitCode /\ wa' = wa /\ wss' = wss)
       /\ (ConnectFailed("timer") /\ lastClose = "other") =>
             (ReconnectAttempts' >= 1 /\ exitCode' = exitCode)]_vars
\* C25: stop() stops the listener before it closes any peer connection, and
\* disconnects the adapter last: when the peers are closed the listener
\* accepts no connection any more.
C25_StopClosesListenerFirst ==
    [][StopStep =>
          /\ StepsOfStop = <<"closeListener", "closeClients", "disconnectAdapter">>
          /\ \A f \in foundBy("closeClients") : ~f.accepting]_vars
\* C26: once the sync of the page has completed, the provider's tradingMode
\* and the stored value both equal the backend's mode (as long as the backend
\* has not applied a setTradingMode of this page that is still to reload it),
\* also on a page loaded by a setTradingMode whose backend call failed.
C26_BackendIsSourceOfTruth ==
    (sync.stage = "done" /\ setCall.stage # "applied") =>
        (tradingMode = backendMode /\ localStorage = backendMode)

\* the page was reloaded by a setTradingMode that failed before the backend
\* applied it; the sync has put the backend's mode back
C26_Witness ==
    /\ page >= 2
    /\ ~lastSet.ok /\ lastSet.mode \in TradingModes \ {backendMode}
    /\ sync.stage = "done" /\ setCall.stage = "none"
    /\ tradingMode = backendMode /\ localStorage = backendMode
\* peer p received a 'sent' acknowledgment in this step
Acknowledged(p) ==
    /\ Len(inbox'[p]) = Len(inbox[p]) + 1
    /\ inbox'[p][Len(inbox'[p])].type = "sent"

\* C27: a peer receives a 'sent' acknowledgment only in the step in which the
\* adapter's send for that peer's command, to the destination the
\* acknowledgment names, has resolved: no acknowledgment without an adapter
\* send.
C27_SentOnlyAfterAdapterSend ==
    [][\A p \in Peers :
          Acknowledged(p) =>
              \E h \in pending \ pending' :
                  /\ h.peer = p
                  /\ inbox'[p][Len(inbox'[p])] = Env("sent", h.to, h.id)]_vars
\* the library delivered a batch in this step
UpsertStep ==
    \/ lastUpsert' # lastUpsert
    \/ \E i \in DOMAIN NewEvents : NewEvents[i].type = "message"

\* a raw message with something to forward: a text, a quoted-reply text, a
\* caption or a voice message
HasContent(msg) ==
    /\ msg.message.present
    /\ \E i \in 1..6 : Applies(msg.message)[i]

\* C28: a batch whose type is not 'notify' gives no inbound message; a batch
\* gives at most as many inbound messages as it has messages with content,
\* so a message without content gives none; the content of every inbound
\* message emitted is a string that is not empty.
C28_OnlyNotifyAndOnlyContent ==
    [][/\ (UpsertStep /\ lastUpsert'.type # "notify") => emitted' = emitted
       /\ UpsertStep =>
             LET batch == lastUpsert'.messages
             IN Len(NewEvents) <= Cardinality({j \in DOMAIN batch : HasContent(batch[j])})
       /\ \A i \in DOMAIN NewEvents :
             NewEvents[i].type = "message" =>
                 NewEvents[i].val \notin {"", "null", undefined}]_vars

\* a notify batch was forwarded; the last batch, of type 'append', holds a
\* message that a notify batch would forward, and nothing was emitted for it
C28_Witness ==
    /\ lastUpsert.type = "append"
    /\ \E j \in DOMAIN lastUpsert.messages :
          HasContent(lastUpsert.messages[j]) /\ ~skipped(lastUpsert.messages[j])
    /\ Len(Forwarded) = 1
    /\ emitted[Len(emitted)].type = "message"
\* C29: reconnecting is true exactly while a reconnect timer is pending, so
\* at most one is; it is set in the step of a close event that schedules the
\* timer, cleared in the step in which the timer fires and calls connect(),
\* and changed in no other step.
C29_FlagTracksPendingTimer ==
    [][/\ (reconnecting <=> timers = 1)' /\ timers' \in {0, 1}
       /\ (~reconnecting /\ reconnecting') => (CloseStep /\ timers' = timers + 1)
       /\ (reconnecting /\ ~reconnecting') =>
             /\ timers' = timers - 1
             /\ connecting'["timer"] = connecting["timer"] + 1
             /\ socks' = socks
       /\ timers' # timers => reconnecting' # reconnecting]_vars

\* two sockets have closed without a logout and no third was created: the
\* second close found the flag set, and one timer is pending
C29_Witness ==
    /\ socks[1] = "closed" /\ socks[2] = "closed" /\ socks[3] = "none"
    /\ InProgress = 0 /\ lastClose = "other"
    /\ reconnecting /\ timers = 1
====
